---------------------------- MODULE Spec2Model ----------------------------
(***************************************************************************)
(* linklore (src/main.go): the directory indexer buildIndex, the link      *)
(* resolver replaceLink and the document rewriter processFile.             *)
(*                                                                         *)
(* Strings are sequences of one-character strings, so that extensions,     *)
(* glob patterns, the link pattern and the rendered links are computed     *)
(* character by character as the Go code computes them.                    *)
(***************************************************************************)
EXTENDS Naturals, Sequences, FiniteSets

VARIABLES
    mode,         \* which entry point runs: "index", "resolve" or "process"
    pc,           \* position of the running call
    baseDir,      \* config.baseDir
    tree,         \* the files below baseDir (paths relative to it, as name lists)
    ignorePatterns, \* config.ignorePatterns
    todo,         \* entries filepath.Walk has still to hand to the callback
    visited,      \* entries the callback was invoked for, in order
    index,        \* config.index: basename -> FileInfo
    count,        \* buildIndex's local counter
    err,          \* the error the running call returned
    prefix,       \* config.prefix
    force,        \* config.force
    inputFile,    \* config.inputFile
    outputFile,   \* config.outputFile
    fs,           \* the document files: path -> contents, or NoFile
    fs0,          \* fs when the call started (history)
    content,      \* processFile's content (the input as read)
    scan,         \* ReplaceAllStringFunc: position of the scan in content
    processed,    \* ReplaceAllStringFunc: the output built so far
    stderr,       \* diagnostics printed by replaceLink, in order
    tokens,       \* history: matches handed to replaceLink, with their results
    writes,       \* history: the os.WriteFile calls made, in order
    reads,        \* history: the os.ReadFile calls made, in order
    token,        \* the LinkToken the resolver's argument was written from
    expr,         \* the bracket expression the input document was written from
    match,        \* the resolver's argument (mode "resolve")
    rendered      \* the resolver's result (mode "resolve")

vars == <<mode, pc, baseDir, tree, ignorePatterns, todo, visited, index, count,
          err, prefix, force, inputFile, outputFile, fs, fs0, content, scan,
          processed, stderr, tokens, writes, reads, token, expr, match, rendered>>

indexVars == <<index, count, todo, visited>>
fileVars == <<fs, content, scan, processed, stderr, tokens, writes, reads>>
configVars == <<mode, baseDir, tree, ignorePatterns, prefix, force, inputFile,
                outputFile, fs0, token, expr, match>>

-----------------------------------------------------------------------------
(* Bounds of the model *)

\* Most files a modelled tree holds.
MaxFiles == 4
\* The limit of buildIndex (count > 10000, main.go:221), scaled down so that
\* trees below, at and above the limit are all in the model.
FileLimit == 2
\* Most pieces (tokens or literal text) a modelled document is made of.
MaxPieces == 2
\* Most marked components (|x, #x, ^x) a modelled bracket expression has
\* after its first component.
MaxParts == 3

-----------------------------------------------------------------------------
(* Strings *)

\* Byte values, for the lexical order in which filepath.Walk reads a directory.
Ord(c) ==
    CASE c = "." -> 46
      [] c = "/" -> 47
      [] c = "a" -> 97
      [] c = "b" -> 98
      [] c = "c" -> 99
      [] c = "d" -> 100
      [] c = "g" -> 103
      [] c = "m" -> 109
      [] c = "r" -> 114
      [] c = "t" -> 116

RECURSIVE StrLess(_, _)
StrLess(s, t) ==
    IF t = <<>> THEN FALSE
    ELSE IF s = <<>> THEN TRUE
    ELSE IF Head(s) = Head(t) THEN StrLess(Tail(s), Tail(t))
    ELSE Ord(Head(s)) < Ord(Head(t))

HasSuffix(s, suffix) ==
    /\ Len(suffix) <= Len(s)
    /\ SubSeq(s, Len(s) - Len(suffix) + 1, Len(s)) = suffix

\* strings.TrimSuffix
TrimSuffix(s, suffix) ==
    IF HasSuffix(s, suffix) THEN SubSeq(s, 1, Len(s) - Len(suffix)) ELSE s

\* filepath.Ext: the suffix beginning at the final dot of the final path
\* element; empty if there is no dot.
RECURSIVE ExtFrom(_, _)
ExtFrom(path, i) ==
    IF i = 0 THEN <<>>
    ELSE IF path[i] = "/" THEN <<>>
    ELSE IF path[i] = "." THEN SubSeq(path, i, Len(path))
    ELSE ExtFrom(path, i - 1)

\* Variant: the extension taken from the first dot of the final element.
RECURSIVE ExtFirstDotFrom(_, _, _)
ExtFirstDotFrom(path, i, found) ==
    IF i = 0 THEN found
    ELSE IF path[i] = "/" THEN found
    ELSE IF path[i] = "." THEN ExtFirstDotFrom(path, i - 1, SubSeq(path, i, Len(path)))
    ELSE ExtFirstDotFrom(path, i - 1, found)

ExtFirstDot(path) == ExtFirstDotFrom(path, Len(path), <<>>)

Ext(path) == ExtFrom(path, Len(path))

\* filepath.Match for patterns of literals, * and ? (names hold no separator).
RECURSIVE Match(_, _)
Match(pattern, name) ==
    IF pattern = <<>> THEN name = <<>>
    ELSE IF Head(pattern) = "*"
         THEN \E k \in 0..Len(name) :
                 Match(Tail(pattern), SubSeq(name, k + 1, Len(name)))
    ELSE /\ name # <<>>
         /\ Head(pattern) = "?" \/ Head(pattern) = Head(name)
         /\ Match(Tail(pattern), Tail(name))

\* filepath.Join of a list of names.
RECURSIVE JoinPath(_)
JoinPath(names) ==
    IF names = <<>> THEN <<>>
    ELSE IF Len(names) = 1 THEN names[1]
    ELSE names[1] \o <<"/">> \o JoinPath(Tail(names))

\* filepath.Rel(base, path) for a path at or below base.
Rel(base, path) ==
    IF path = base THEN <<".">>
    ELSE SubSeq(path, Len(base) + 2, Len(path))

-----------------------------------------------------------------------------
(* The directory trees of the model *)

\* Candidate files, as the list of names from baseDir down to the file.
CandFiles ==
    { << <<"a", ".", "m">> >>,
      << <<"a", ".", "t">> >>,
      << <<"b", ".", "m">> >>,
      << <<".", "m">> >>,
      << <<"c">> >>,
      << <<"d">>, <<"a", ".", "m">> >>,
      << <<"d">>, <<"a", ".", "b", ".", "m">> >>,
      << <<"g">>, <<"b", ".", "m">> >>,
      << <<"d">>, <<"g">>, <<"c">> >> }

Trees == { t \in SUBSET CandFiles : Cardinality(t) <= MaxFiles }

BaseDirs == { <<"r">>, <<"g">> }

PatternLists ==
    { << >>,
      << <<"g">> >>,
      << <<"*", ".", "t">>, <<"d">> >>,
      << <<"?", ".", "m">> >> }

\* The directories of a tree: baseDir itself (<<>>) and every proper prefix
\* of a file's name list.
DirsOf(files) ==
    {<<>>} \cup UNION { { SubSeq(f, 1, k) : k \in 0..(Len(f) - 1) } : f \in files }

\* What the walk hands to the callback for one file or directory: path and
\* the fs.FileInfo's Name() and IsDir().
Entry(base, rel, isDir) ==
    [ rel   |-> rel,
      path  |-> JoinPath(<<base>> \o rel),
      name  |-> IF rel = <<>> THEN base ELSE rel[Len(rel)],
      isDir |-> isDir ]

EntriesOf(base, files) ==
    { Entry(base, f, FALSE) : f \in files }
        \cup { Entry(base, d, TRUE) : d \in DirsOf(files) }

\* filepath.Walk's order: a directory before what it holds, the names of one
\* directory in lexical order.
RECURSIVE RelLess(_, _)
RelLess(r1, r2) ==
    IF r2 = <<>> THEN FALSE
    ELSE IF r1 = <<>> THEN TRUE
    ELSE IF Head(r1) = Head(r2) THEN RelLess(Tail(r1), Tail(r2))
    ELSE StrLess(Head(r1), Head(r2))

RECURSIVE SortEntries(_)
SortEntries(S) ==
    IF S = {} THEN <<>>
    ELSE LET first == CHOOSE e \in S : \A o \in S \ {e} : RelLess(e.rel, o.rel)
         IN  <<first>> \o SortEntries(S \ {first})

WalkOrder(base, files) == SortEntries(EntriesOf(base, files))

IsBelow(rel, dir) == Len(dir) < Len(rel) /\ SubSeq(rel, 1, Len(dir)) = dir

-----------------------------------------------------------------------------
(* buildIndex *)

EmptyIndex == [k \in {} |-> <<>>]

NoErr == [kind |-> "nil", key |-> <<>>, path |-> <<>>]
WalkErr == [kind |-> "walk", key |-> <<>>, path |-> <<>>]
DuplicateKey(basename, entry) ==
    [kind |-> "duplicate key", key |-> basename, path |-> entry.path]
TooManyFiles == [kind |-> "too many files", key |-> <<>>, path |-> <<>>]

FileInfo(name, basename, ext, path) ==
    [name |-> name, basename |-> basename, ext |-> ext, path |-> path]

Put(idx, key, value) ==
    [k \in DOMAIN idx \cup {key} |-> IF k = key THEN value ELSE idx[k]]

\* The loop over config.ignorePatterns: does some pattern match the name?
Ignored(name, patterns) ==
    \E i \in 1..Len(patterns) : Match(patterns[i], name)

\* Variant: an ignored directory is not skipped, only left out itself.
IgnoredResultNoSkip(e) == "nil"

\* What the callback returns for an ignored entry.
IgnoredResult(e) == IF e.isDir THEN "SkipDir" ELSE "nil"

\* Variant: the limit test off by one (count >= limit).
OverLimitOffByOne(n) == n >= FileLimit

\* The count > 10000 test.
OverLimit(n) == n > FileLimit

\* The callback of filepath.Walk, called with err = nil: the value it
\* returns ("nil", "SkipDir" or "error") and what it leaves in the index,
\* the counter and the error.
WalkFn(base, patterns, e, idx, cnt) ==
    IF Ignored(e.name, patterns)
    THEN [ret |-> IgnoredResult(e), index |-> idx, count |-> cnt, err |-> NoErr]
    ELSE IF e.isDir
    THEN [ret |-> "nil", index |-> idx, count |-> cnt, err |-> NoErr]
    ELSE LET ext      == Ext(e.path)
             basename == TrimSuffix(e.name, ext)
         IN  IF basename \in DOMAIN idx
             THEN [ret |-> "error", index |-> idx, count |-> cnt,
                   err |-> DuplicateKey(basename, idx[basename])]
             ELSE LET added == Put(idx, basename,
                                   FileInfo(e.name, basename, ext, Rel(base, e.path)))
                  IN  IF OverLimit(cnt + 1)
                      THEN [ret |-> "error", index |-> added, count |-> cnt + 1,
                            err |-> TooManyFiles]
                      ELSE [ret |-> "nil", index |-> added, count |-> cnt + 1,
                            err |-> NoErr]

\* filepath.Walk after the callback returned SkipDir for a directory: nothing
\* below it is visited.
SkipBelow(rest, dir) == SelectSeq(rest, LAMBDA e : ~IsBelow(e.rel, dir.rel))

\* Variant: main ignores the error of buildIndex.
AfterBuildIndexIgnoringError(e) == "processFile"

\* After a failed buildIndex main prints the error and exits with status 1;
\* otherwise it goes on to processFile.
AfterBuildIndex(e) == IF e.kind # "nil" THEN "exit1" ELSE "processFile"

\* One invocation of the callback with err = nil.
Visit ==
    /\ mode = "index" /\ pc = "walk" /\ todo # <<>>
    /\ LET e == Head(todo)
           r == WalkFn(baseDir, ignorePatterns, e, index, count)
       IN  /\ visited' = Append(visited, e)
           /\ index' = r.index
           /\ count' = r.count
           /\ err' = r.err
           /\ todo' = IF r.ret = "SkipDir" THEN SkipBelow(Tail(todo), e)
                      ELSE Tail(todo)
           /\ pc' = IF r.ret = "error" THEN "returned" ELSE "walk"
    /\ UNCHANGED <<configVars, fileVars, rendered>>

\* The walk fails to read the next entry: the callback is invoked with
\* err # nil and returns it, which ends the walk.
VisitFailure ==
    /\ mode = "index" /\ pc = "walk" /\ todo # <<>>
    /\ err' = WalkErr
    /\ pc' = "returned"
    /\ UNCHANGED <<configVars, indexVars, fileVars, rendered>>

\* The walk has visited everything: buildIndex returns nil.
WalkDone ==
    /\ mode = "index" /\ pc = "walk" /\ todo = <<>>
    /\ err' = NoErr
    /\ pc' = "returned"
    /\ UNCHANGED <<configVars, indexVars, fileVars, rendered>>

\* main, after buildIndex returned.
MainAfterBuildIndex ==
    /\ mode = "index" /\ pc = "returned"
    /\ pc' = AfterBuildIndex(err)
    /\ UNCHANGED <<configVars, indexVars, err, fileVars, rendered>>

\* A path no file is at, and a file with its contents.
NoFile == [exists |-> FALSE, data |-> <<>>]
File(data) == [exists |-> TRUE, data |-> data]

NoToken == [embed |-> FALSE, base |-> <<>>, alias |-> <<>>, anchor |-> <<>>,
            block |-> <<>>]

\* A bracket expression: an optional !, [[, a first component, then marked
\* components in any number and order, then what closes it.
NoExpr == [embed |-> FALSE, base |-> <<>>, parts |-> <<>>, close |-> <<>>]

InitIndex ==
    /\ mode = "index"
    /\ pc = "walk"
    /\ baseDir \in BaseDirs
    /\ tree \in Trees
    /\ ignorePatterns \in PatternLists
    /\ todo = WalkOrder(baseDir, tree)
    /\ visited = <<>>
    /\ index = EmptyIndex
    /\ count = 0
    /\ err = NoErr
    /\ prefix = <<"/">>
    /\ force = FALSE
    /\ inputFile = "in"
    /\ outputFile = "out"
    /\ fs = [p \in {"in", "out"} |-> NoFile]
    /\ fs0 = fs
    /\ content = <<>>
    /\ scan = 1
    /\ processed = <<>>
    /\ stderr = <<>>
    /\ tokens = <<>>
    /\ writes = <<>>
    /\ reads = <<>>
    /\ token = NoToken
    /\ expr = NoExpr
    /\ match = <<>>
    /\ rendered = <<>>

NextIndex == Visit \/ VisitFailure \/ WalkDone \/ MainAfterBuildIndex

SpecIndex == InitIndex /\ [][NextIndex]_vars

\* buildIndex run to its end on a walk without read failures: the error it
\* returns and the index it leaves.
RECURSIVE BuildIndexFrom(_, _, _, _, _)
BuildIndexFrom(base, patterns, rest, idx, cnt) ==
    IF rest = <<>> THEN [err |-> NoErr, index |-> idx]
    ELSE LET r == WalkFn(base, patterns, Head(rest), idx, cnt)
         IN  IF r.ret = "error" THEN [err |-> r.err, index |-> r.index]
             ELSE BuildIndexFrom(base, patterns,
                                 IF r.ret = "SkipDir"
                                 THEN SkipBelow(Tail(rest), Head(rest))
                                 ELSE Tail(rest),
                                 r.index, r.count)

\* The indexes a successful buildIndex hands to processFile.
BuiltIndexes ==
    { BuildIndexFrom(<<"r">>, << >>, WalkOrder(<<"r">>, t), EmptyIndex, 0).index :
        t \in { x \in Trees :
                  BuildIndexFrom(<<"r">>, << >>, WalkOrder(<<"r">>, x),
                                 EmptyIndex, 0).err = NoErr } }

-----------------------------------------------------------------------------
(* linkPattern *)

At(s, i) == IF i \in 1..Len(s) THEN s[i] ELSE ""

\* [^|\[\]#^]
ComponentChar(c) == c \notin {"", "|", "[", "]", "#", "^"}

\* ([^|\[\]#^]+) from position i: the position after the longest run of
\* component characters (i itself if there is none).
RECURSIVE RunEnd(_, _)
RunEnd(s, i) == IF ComponentChar(At(s, i)) THEN RunEnd(s, i + 1) ELSE i

\* Variant: the component of an optional group may be empty ( * for + ).
OptionalComponentOrEmpty(s, i, mark) ==
    IF At(s, i) = mark
    THEN [text |-> SubSeq(s, i + 1, RunEnd(s, i + 1) - 1), end |-> RunEnd(s, i + 1)]
    ELSE [text |-> <<>>, end |-> i]

\* (?:<mark>([^|\[\]#^]+))? at position i: the group matches if the mark is
\* followed by a component, and is passed over otherwise.
OptionalComponent(s, i, mark) ==
    IF At(s, i) = mark /\ RunEnd(s, i + 1) > i + 1
    THEN [text |-> SubSeq(s, i + 1, RunEnd(s, i + 1) - 1), end |-> RunEnd(s, i + 1)]
    ELSE [text |-> <<>>, end |-> i]

NoMatch == [ok |-> FALSE, start |-> 0, end |-> 0, base |-> <<>>, alias |-> <<>>,
            anchor |-> <<>>, block |-> <<>>]

\* linkPattern matched at position i of s.
MatchAt(s, i) ==
    LET open    == IF At(s, i) = "!" THEN i + 1 ELSE i
        baseEnd == RunEnd(s, open + 2)
        alias   == OptionalComponent(s, baseEnd, "|")
        anchor  == OptionalComponent(s, alias.end, "#")
        block   == OptionalComponent(s, anchor.end, "^")
    IN  IF /\ At(s, open) = "[" /\ At(s, open + 1) = "["
           /\ baseEnd > open + 2
           /\ At(s, block.end) = "]" /\ At(s, block.end + 1) = "]"
        THEN [ok |-> TRUE, start |-> i, end |-> block.end + 2,
              base |-> SubSeq(s, open + 2, baseEnd - 1),
              alias |-> alias.text, anchor |-> anchor.text, block |-> block.text]
        ELSE NoMatch

\* The leftmost match of linkPattern in s at or after position from.
RECURSIVE FindFrom(_, _)
FindFrom(s, from) ==
    IF from > Len(s) THEN NoMatch
    ELSE IF MatchAt(s, from).ok THEN MatchAt(s, from)
    ELSE FindFrom(s, from + 1)

\* linkPattern.FindStringSubmatch
FindStringSubmatch(s) == FindFrom(s, 1)

-----------------------------------------------------------------------------
(* replaceLink *)

\* Variant: no second lookup without the extension.
KeepExt(base) == base

\* strings.TrimSuffix(base, filepath.Ext(base))
BaseWithoutExt(base) == TrimSuffix(base, Ext(base))

\* Variant: the anchor separator is appended whether or not there is an anchor.
LinkAlwaysAnchored(pfx, fileInfo, anchor) == pfx \o fileInfo.path \o <<"#">> \o anchor

\* link := config.prefix + fileInfo.path, with "#" + anchor if there is one.
Link(pfx, fileInfo, anchor) ==
    IF anchor # <<>> THEN pfx \o fileInfo.path \o <<"#">> \o anchor
    ELSE pfx \o fileInfo.path

\* fmt.Sprintf("[%s](%s)", alias, link)
Sprintf(alias, link) == <<"[">> \o alias \o <<"]", "(">> \o link \o <<")">>

\* Variant: a link that is not found is dropped from the text.
NotFoundDropped(m) == [text |-> <<>>, diag |-> <<m>>]

\* No file for the link: the diagnostic is printed and the match returned.
NotFound(m) == [text |-> m, diag |-> <<m>>]

Resolved(pfx, fileInfo, sub) ==
    [ text |-> Sprintf(IF sub.alias = <<>> THEN sub.base ELSE sub.alias,
                       Link(pfx, fileInfo, sub.anchor)),
      diag |-> <<>> ]

\* Variant: an embed keeps its leading ! in the output.
ReplaceLinkKeepingEmbed(idx, pfx, m) ==
    LET sub == FindStringSubmatch(m)
        r   == IF sub.base \in DOMAIN idx THEN Resolved(pfx, idx[sub.base], sub)
               ELSE IF BaseWithoutExt(sub.base) \in DOMAIN idx
               THEN Resolved(pfx, idx[BaseWithoutExt(sub.base)], sub)
               ELSE NotFound(m)
    IN  IF r.diag = <<>> /\ At(m, 1) = "!"
        THEN [text |-> <<"!">> \o r.text, diag |-> <<>>]
        ELSE r

\* The function replaceLink(config) returns, applied to a match: the
\* replacement text and what it prints to stderr.
ReplaceLink(idx, pfx, m) ==
    LET sub == FindStringSubmatch(m)
    IN  IF sub.base \in DOMAIN idx
        THEN Resolved(pfx, idx[sub.base], sub)
        ELSE IF BaseWithoutExt(sub.base) \in DOMAIN idx
        THEN Resolved(pfx, idx[BaseWithoutExt(sub.base)], sub)
        ELSE NotFound(m)

\* The text of a token with the given components (an absent component is
\* the empty string).
TokenText(t) ==
    (IF t.embed THEN <<"!">> ELSE <<>>) \o <<"[", "[">> \o t.base
        \o (IF t.alias # <<>> THEN <<"|">> \o t.alias ELSE <<>>)
        \o (IF t.anchor # <<>> THEN <<"#">> \o t.anchor ELSE <<>>)
        \o (IF t.block # <<>> THEN <<"^">> \o t.block ELSE <<>>)
        \o <<"]", "]">>

Bases == { <<"a">>, <<"a", ".", "t">>, <<"a", ".", "b">>, <<".", "m">>,
           <<"d", ".", "b", "/", "a">>, <<"q">> }

Tokens ==
    [ embed : BOOLEAN, base : Bases, alias : {<<>>, <<"z">>},
      anchor : {<<>>, <<"h">>}, block : {<<>>, <<"k">>} ]

Prefixes == { <<"/">>, <<"/", "n", "/">> }

\* replaceLink called on one match.
Resolve ==
    /\ mode = "resolve" /\ pc = "call"
    /\ LET r == ReplaceLink(index, prefix, match)
       IN  /\ rendered' = r.text
           /\ stderr' = stderr \o r.diag
    /\ pc' = "done"
    /\ UNCHANGED <<configVars, indexVars, err, fs, content, scan, processed,
                   tokens, writes, reads>>

InitResolve ==
    /\ mode = "resolve"
    /\ pc = "call"
    /\ baseDir = <<"r">>
    /\ tree = {}
    /\ ignorePatterns = << >>
    /\ todo = <<>>
    /\ visited = <<>>
    /\ index \in BuiltIndexes
    /\ count = 0
    /\ err = NoErr
    /\ prefix \in Prefixes
    /\ force = FALSE
    /\ inputFile = "in"
    /\ outputFile = "out"
    /\ fs = [p \in {"in", "out"} |-> NoFile]
    /\ fs0 = fs
    /\ content = <<>>
    /\ scan = 1
    /\ processed = <<>>
    /\ stderr = <<>>
    /\ tokens = <<>>
    /\ writes = <<>>
    /\ reads = <<>>
    /\ token \in Tokens
    /\ expr = NoExpr
    /\ match = TokenText(token)
    /\ rendered = <<>>

NextResolve == Resolve

SpecResolve == InitResolve /\ [][NextResolve]_vars

-----------------------------------------------------------------------------
(* processFile *)

OutputExists == [kind |-> "output file already exists", key |-> <<>>, path |-> <<>>]
ReadErr == [kind |-> "read", key |-> <<>>, path |-> <<>>]
WriteErr == [kind |-> "write", key |-> <<>>, path |-> <<>>]

\* Variant: the force flag is not consulted.
GuardIgnoringForce(f, exists) == exists

\* if !config.force { if _, err := os.Stat(config.outputFile); err == nil {
\* return errors.New("output file already exists") } }
GuardFails(f, exists) == ~f /\ exists

\* The overwrite guard.
Guard ==
    /\ mode = "process" /\ pc = "guard"
    /\ IF GuardFails(force, fs[outputFile].exists)
       THEN err' = OutputExists /\ pc' = "done"
       ELSE err' = err /\ pc' = "read"
    /\ UNCHANGED <<configVars, indexVars, fileVars, rendered>>

\* content, err := os.ReadFile(config.inputFile)
ReadInput ==
    /\ mode = "process" /\ pc = "read"
    /\ reads' = Append(reads, inputFile)
    /\ IF fs[inputFile].exists
       THEN /\ content' = fs[inputFile].data
            /\ err' = err
            /\ pc' = "replace"
       ELSE /\ content' = content
            /\ err' = ReadErr
            /\ pc' = "done"
    /\ UNCHANGED <<configVars, indexVars, fs, scan, processed, stderr, tokens,
                   writes, rendered>>

\* linkPattern.ReplaceAllStringFunc, one match: the text before the match is
\* copied, the match is handed to replaceLink and its result appended, and
\* the scan goes on after the match.
ReplaceMatch ==
    /\ mode = "process" /\ pc = "replace"
    /\ FindFrom(content, scan).ok
    /\ LET m    == FindFrom(content, scan)
           text == SubSeq(content, m.start, m.end - 1)
           r    == ReplaceLink(index, prefix, text)
       IN  /\ processed' = processed \o SubSeq(content, scan, m.start - 1) \o r.text
           /\ stderr' = stderr \o r.diag
           /\ tokens' = Append(tokens,
                               [match |-> text, base |-> m.base, alias |-> m.alias,
                                anchor |-> m.anchor, block |-> m.block,
                                start |-> m.start, end |-> m.end, text |-> r.text,
                                at |-> Len(processed) + (m.start - scan) + 1])
           /\ scan' = m.end
    /\ UNCHANGED <<configVars, indexVars, err, pc, fs, content, writes, reads,
                   rendered>>

\* Variant: the text after the last match is not copied.
ReplaceDoneDroppingRest ==
    /\ mode = "process" /\ pc = "replace"
    /\ ~FindFrom(content, scan).ok
    /\ scan' = Len(content) + 1
    /\ pc' = "write"
    /\ UNCHANGED <<configVars, indexVars, err, fs, content, processed, stderr,
                   tokens, writes, reads, rendered>>

\* linkPattern.ReplaceAllStringFunc, no further match: the rest is copied.
ReplaceDone ==
    /\ mode = "process" /\ pc = "replace"
    /\ ~FindFrom(content, scan).ok
    /\ processed' = processed \o SubSeq(content, scan, Len(content))
    /\ scan' = Len(content) + 1
    /\ pc' = "write"
    /\ UNCHANGED <<configVars, indexVars, err, fs, content, stderr, tokens,
                   writes, reads, rendered>>

\* os.WriteFile(config.outputFile, []byte(processedContent), 0644) succeeds.
WriteOutput ==
    /\ mode = "process" /\ pc = "write"
    /\ fs' = [fs EXCEPT ![outputFile] = File(processed)]
    /\ writes' = Append(writes, [path |-> outputFile, data |-> processed])
    /\ err' = NoErr
    /\ pc' = "done"
    /\ UNCHANGED <<configVars, indexVars, content, scan, processed, stderr,
                   tokens, reads, rendered>>

\* os.WriteFile fails: before the file was opened, or after it was truncated.
WriteFailure ==
    /\ mode = "process" /\ pc = "write"
    /\ \E truncated \in BOOLEAN :
          fs' = IF truncated THEN [fs EXCEPT ![outputFile] = File(<<>>)] ELSE fs
    /\ writes' = Append(writes, [path |-> outputFile, data |-> processed])
    /\ err' = WriteErr
    /\ pc' = "done"
    /\ UNCHANGED <<configVars, indexVars, content, scan, processed, stderr,
                   tokens, reads, rendered>>

\* The pieces the documents of the model are made of: tokens and other text.
Pieces ==
    { <<"[", "[", "a", "]", "]">>,
      <<"!", "[", "[", "a", ".", "t", "|", "z", "]", "]">>,
      <<"[", "[", "q", "]", "]">>,
      <<"!", "[", "[", "q", ".", "t", "#", "h", "]", "]">>,
      <<"[", "[", "q">>,
      <<"x">> }

RECURSIVE Flatten(_)
Flatten(ps) == IF ps = <<>> THEN <<>> ELSE Head(ps) \o Flatten(Tail(ps))

Documents ==
    { Flatten(ps) : ps \in UNION { [1..n -> Pieces] : n \in 0..MaxPieces } }

\* The indexes processFile is run with.
ProcessIndexes ==
    { idx \in BuiltIndexes : DOMAIN idx \subseteq {<<"a">>, <<"a", ".", "b">>} }

InitProcess ==
    /\ mode = "process"
    /\ pc = "guard"
    /\ baseDir = <<"r">>
    /\ tree = {}
    /\ ignorePatterns = << >>
    /\ todo = <<>>
    /\ visited = <<>>
    /\ index \in ProcessIndexes
    /\ count = 0
    /\ err = NoErr
    /\ prefix \in Prefixes
    /\ force \in BOOLEAN
    /\ inputFile = "in"
    /\ outputFile \in {"in", "out"}
    /\ fs \in [ {"in", "out"} -> {NoFile} \cup { File(d) : d \in Documents } ]
    /\ fs["out"] \in {NoFile, File(<<"x">>)}
    /\ fs0 = fs
    /\ content = <<>>
    /\ scan = 1
    /\ processed = <<>>
    /\ stderr = <<>>
    /\ tokens = <<>>
    /\ writes = <<>>
    /\ reads = <<>>
    /\ token = NoToken
    /\ expr = NoExpr
    /\ match = <<>>
    /\ rendered = <<>>

NextProcess ==
    Guard \/ ReadInput \/ ReplaceMatch \/ ReplaceDone \/ WriteOutput \/ WriteFailure

SpecProcess == InitProcess /\ [][NextProcess]_vars

\* The bracket expressions of the model. A marked component is the mark and
\* a run of component characters, which may be empty.
ComponentOf(mark) ==
    CASE mark = "|" -> <<"z">>
      [] mark = "#" -> <<"h">>
      [] mark = "^" -> <<"k">>

Parts == [mark : {"|", "#", "^"}, text : {<<>>, <<"z">>, <<"h">>, <<"k">>}]

Exprs ==
    [ embed : BOOLEAN,
      base  : {<<>>, <<"a">>},
      parts : UNION { [1..n -> { p \in Parts : p.text \in {<<>>, ComponentOf(p.mark)} }] :
                        n \in 0..MaxParts },
      close : {<<"]", "]">>, <<"]">>, <<>>} ]

RECURSIVE PartsText(_)
PartsText(parts) ==
    IF parts = <<>> THEN <<>>
    ELSE <<Head(parts).mark>> \o Head(parts).text \o PartsText(Tail(parts))

ExprText(e) ==
    (IF e.embed THEN <<"!">> ELSE <<>>) \o <<"[", "[">> \o e.base
        \o PartsText(e.parts) \o e.close

\* The indexes the bracket expressions are rewritten with: none of a file,
\* and that of the file a.m.
GrammarIndexes == { idx \in ProcessIndexes : \A k \in DOMAIN idx : idx[k].path = <<"a", ".", "m">> }

\* processFile run on a document that is one bracket expression.
InitGrammar ==
    /\ mode = "process"
    /\ pc = "guard"
    /\ baseDir = <<"r">>
    /\ tree = {}
    /\ ignorePatterns = << >>
    /\ todo = <<>>
    /\ visited = <<>>
    /\ index \in GrammarIndexes
    /\ count = 0
    /\ err = NoErr
    /\ prefix = <<"/">>
    /\ force = FALSE
    /\ inputFile = "in"
    /\ outputFile = "out"
    /\ expr \in Exprs
    /\ fs = [p \in {"in", "out"} |-> IF p = "in" THEN File(ExprText(expr)) ELSE NoFile]
    /\ fs0 = fs
    /\ content = <<>>
    /\ scan = 1
    /\ processed = <<>>
    /\ stderr = <<>>
    /\ tokens = <<>>
    /\ writes = <<>>
    /\ reads = <<>>
    /\ token = NoToken
    /\ match = <<>>
    /\ rendered = <<>>

SpecGrammar == InitGrammar /\ [][NextProcess]_vars

\* Every entry point of the module.
Init == InitIndex \/ InitResolve \/ InitProcess
Next == NextIndex \/ NextResolve \/ NextProcess
Spec == Init /\ [][Next]_vars

-----------------------------------------------------------------------------
(* What the claims about buildIndex speak of *)

\* buildIndex has returned (and main may have acted on its result).
BuildIndexReturned == mode = "index" /\ pc \in {"returned", "exit1", "processFile"}

\* Position of the last dot of a name, 0 if it has none.
LastDot(name) ==
    IF \E i \in 1..Len(name) : name[i] = "."
    THEN CHOOSE i \in 1..Len(name) :
            name[i] = "." /\ \A j \in (i + 1)..Len(name) : name[j] # "."
    ELSE 0

\* A file name with its final extension removed, and that extension.
Basename(name) ==
    IF LastDot(name) = 0 THEN name ELSE SubSeq(name, 1, LastDot(name) - 1)
FinalExt(name) ==
    IF LastDot(name) = 0 THEN <<>> ELSE SubSeq(name, LastDot(name), Len(name))

FileName(f) == f[Len(f)]

\* A file is accepted iff no ignore pattern matches its own name, the name of
\* a directory on its path, or the name of the root.
AcceptedFile(f) ==
    /\ ~Ignored(baseDir, ignorePatterns)
    /\ \A k \in 1..Len(f) : ~Ignored(f[k], ignorePatterns)

Accepted == { f \in tree : AcceptedFile(f) }

SharedBasename ==
    \E f, g \in Accepted : f # g /\ Basename(FileName(f)) = Basename(FileName(g))

\* The accepted files in the order the walk reaches them.
AcceptedInOrder ==
    SelectSeq(WalkOrder(baseDir, tree), LAMBDA e : ~e.isDir /\ e.rel \in Accepted)

IsRepeat(seq, j) ==
    \E i \in 1..(j - 1) : Basename(seq[i].name) = Basename(seq[j].name)

\* Position in AcceptedInOrder of the first file whose basename an earlier
\* accepted file has; 0 if there is none.
FirstRepeat ==
    LET seq == AcceptedInOrder
    IN  IF \E j \in 1..Len(seq) : IsRepeat(seq, j)
        THEN CHOOSE j \in 1..Len(seq) :
                IsRepeat(seq, j) /\ \A k \in 1..(j - 1) : ~IsRepeat(seq, k)
        ELSE 0

\* Number of accepted files the walk reaches before the first repeat.
AcceptedBeforeRepeat ==
    IF FirstRepeat = 0 THEN Len(AcceptedInOrder) ELSE FirstRepeat - 1

LastVisited == visited[Len(visited)]

\* C1: when no two accepted files share a basename and at most FileLimit
\* files are accepted (and the walk meets no read failure), buildIndex
\* returns nil and the index holds exactly one entry per accepted file, keyed
\* by the name without its final extension, recording name, basename, ext
\* and the path relative to the root.
C1_IndexExact ==
    (BuildIndexReturned /\ err.kind # "walk" /\ ~SharedBasename
        /\ Cardinality(Accepted) <= FileLimit)
    => /\ err = NoErr
       /\ DOMAIN index = { Basename(FileName(f)) : f \in Accepted }
       /\ \A f \in Accepted :
            index[Basename(FileName(f))] =
                [ name     |-> FileName(f),
                  basename |-> Basename(FileName(f)),
                  ext      |-> FinalExt(FileName(f)),
                  path     |-> JoinPath(f) ]

\* C1 witness: a successful build of a full index while a file was left out
\* because of an ignored directory above it.
C1_Witness ==
    /\ BuildIndexReturned /\ err = NoErr
    /\ Cardinality(DOMAIN index) = FileLimit
    /\ \E f \in tree \ Accepted : ~Ignored(FileName(f), ignorePatterns)

\* C2 as stated: whenever two accepted files share a basename, buildIndex
\* fails with the duplicate-key error (read failures of the walk aside).
C2_AlwaysDuplicateKey ==
    (BuildIndexReturned /\ err.kind # "walk" /\ SharedBasename)
    => err.kind = "duplicate key"

\* C2 amended: when two accepted files share a basename buildIndex fails; the
\* error is the duplicate-key error, raised at the visit of the first file
\* that repeats a basename and naming that basename and the path of the file
\* already indexed, provided at most FileLimit files were accepted before
\* that visit; otherwise it is the too-many-files error.
C2_DuplicateKeyUnlessOverLimit ==
    (BuildIndexReturned /\ err.kind # "walk" /\ SharedBasename)
    => LET seq == AcceptedInOrder
           j   == FirstRepeat
       IN  IF j - 1 <= FileLimit
           THEN /\ err.kind = "duplicate key"
                /\ err.key = Basename(seq[j].name)
                /\ LastVisited = seq[j]
                /\ \E i \in 1..(j - 1) :
                      /\ Basename(seq[i].name) = err.key
                      /\ err.path = JoinPath(seq[i].rel)
                      /\ index[err.key].path = err.path
           ELSE err = TooManyFiles

\* C2 witness: a duplicate-key error raised in a subdirectory, for a file of
\* another directory, with the index at the limit.
C2_Witness ==
    /\ BuildIndexReturned /\ err.kind = "duplicate key"
    /\ Len(LastVisited.rel) > 1
    /\ count = FileLimit

\* C3 as stated: after a failed buildIndex the caller's index holds none of
\* the entries added during the call (stated for the two failures buildIndex
\* raises itself, duplicate key and too many files).
C3_PartialIndexDiscarded ==
    (BuildIndexReturned /\ err.kind \in {"duplicate key", "too many files"})
    => index = EmptyIndex

\* C3 amended: after a failed buildIndex main exits with status 1 and never
\* goes on to processFile, so nothing is resolved against the partial index;
\* the index itself keeps the entries added before the failure (one per
\* non-ignored file visited).
C3_FailedBuildExits ==
    (mode = "index" /\ err.kind # "nil")
    => /\ pc \in {"returned", "exit1"}
       /\ DOMAIN index =
            { Basename(visited[i].name) :
                i \in { k \in 1..Len(visited) :
                          /\ ~visited[k].isDir
                          /\ ~Ignored(visited[k].name, ignorePatterns) } }
       /\ Cardinality(DOMAIN index) = count

\* C3 witness: main has exited after a failed build that left entries behind.
C3_Witness ==
    mode = "index" /\ pc = "exit1" /\ err.kind # "nil" /\ index # EmptyIndex

\* C4: buildIndex fails with the too-many-files error iff more than FileLimit
\* files are accepted (before any repeated basename stops the walk); the
\* error is raised at the visit of accepted file number FileLimit + 1, the
\* last entry visited; a tree of exactly FileLimit accepted files with
\* distinct basenames succeeds with FileLimit entries.
C4_TooManyFiles ==
    (BuildIndexReturned /\ err.kind # "walk")
    => /\ err = TooManyFiles <=> AcceptedBeforeRepeat > FileLimit
       /\ err = TooManyFiles
            => /\ count = FileLimit + 1
               /\ LastVisited = AcceptedInOrder[FileLimit + 1]
       /\ (~SharedBasename /\ Cardinality(Accepted) = FileLimit)
            => err = NoErr /\ Cardinality(DOMAIN index) = FileLimit

\* C4 witness: the too-many-files error with entries of the tree left
\* unvisited.
C4_Witness ==
    /\ BuildIndexReturned /\ err = TooManyFiles
    /\ todo # <<>>

-----------------------------------------------------------------------------
(* What the claims about the resolver speak of *)

ResolverReturned == mode = "resolve" /\ pc = "done"

\* A base with the final extension of its last path element removed.
ExtStripped(base) ==
    IF LastDot(base) = 0 \/ \E i \in LastDot(base)..Len(base) : base[i] = "/"
    THEN base
    ELSE SubSeq(base, 1, LastDot(base) - 1)

\* The base, or the base without its extension, is a key of the index.
Findable(base) == base \in DOMAIN index \/ ExtStripped(base) \in DOMAIN index

\* The text shown for a token: its alias if it has one, else its base.
Display(t) == IF t.alias # <<>> THEN t.alias ELSE t.base

\* The resolver's output for the token t.
Output(t) == ReplaceLink(index, prefix, TokenText(t)).text

\* C5: for a token whose base is a key of the index the resolver renders
\* "[" display "](" prefix path ")", path being that of index[base] even when
\* the base without its extension is a key too, with "#" anchor after the
\* path iff there is an anchor; the block plays no part, and nothing is
\* printed.
C5_RenderedLink ==
    (ResolverReturned /\ token.base \in DOMAIN index)
    => /\ rendered =
            <<"[">> \o Display(token) \o <<"]", "(">>
                \o prefix \o index[token.base].path
                \o (IF token.anchor # <<>> THEN <<"#">> \o token.anchor ELSE <<>>)
                \o <<")">>
       /\ stderr = <<>>

\* C5 witness: an embed with alias, anchor and block whose base and whose
\* base without extension are both keys.
C5_Witness ==
    /\ ResolverReturned
    /\ token.base = <<"a", ".", "b">>
    /\ {<<"a", ".", "b">>, <<"a">>} \subseteq DOMAIN index
    /\ token.embed /\ token.alias # <<>> /\ token.anchor # <<>> /\ token.block # <<>>

\* The token ![[X.ext]] of C6: an embed of nothing but a base that ends in
\* an extension, where X is a key and X.ext is not.
ExtensionFallbackCase(t) ==
    /\ ExtStripped(t.base) # t.base
    /\ ExtStripped(t.base) # <<>>
    /\ ExtStripped(t.base) \in DOMAIN index
    /\ t.base \notin DOMAIN index

C7_EmbedSameText ==
    ResolverReturned
    => /\ rendered = Output([token EXCEPT !.embed = ~token.embed])
       /\ At(rendered, 1) # "!"

\* C7 amended: when the base or the base without its extension is a key, the
\* token with a leading ! and the token without it produce the same text,
\* which has no leading !; when neither is a key each token is returned as
\* it was written, the embed with its leading !.
C7_EmbedSameTextWhenFound ==
    ResolverReturned
    => LET other == [token EXCEPT !.embed = ~token.embed]
       IN  IF Findable(token.base)
           THEN rendered = Output(other) /\ At(rendered, 1) = "["
           ELSE rendered = match /\ Output(other) = TokenText(other)

\* C7 witness: an embed that was resolved.
C7_Witness ==
    /\ ResolverReturned /\ token.embed /\ Findable(token.base)
    /\ rendered # match

-----------------------------------------------------------------------------
(* What the claims about processFile speak of *)

\* ReplaceAllStringFunc has gone through the whole content.
ScanFinished == mode = "process" /\ (pc = "write" \/ (pc = "done" /\ writes # <<>>))

\* The matches among tokens[1..n] that no lookup finds, in order.
RECURSIVE Unresolved(_, _)
Unresolved(toks, n) ==
    IF n = 0 THEN <<>>
    ELSE Unresolved(toks, n - 1)
            \o (IF Findable(toks[n].base) THEN <<>> ELSE <<toks[n].match>>)

\* C8: a token of which neither the base nor the base without its extension
\* is a key is put into the output as it was written, with exactly one
\* diagnostic; the scan goes on, so that every token of the document is
\* handed to the resolver and the later ones that can be found are rendered;
\* processFile then fails only if the write itself fails, and the file it
\* writes holds the output with the unresolved token in it.
C8_NotFoundKeptVerbatim ==
    mode = "process"
    => /\ \A i \in 1..Len(tokens) :
            LET t == tokens[i]
                shown == IF t.alias # <<>> THEN t.alias ELSE t.base
            IN  /\ SubSeq(processed, t.at, t.at + Len(t.text) - 1) = t.text
                /\ IF Findable(t.base)
                   THEN SubSeq(t.text, 1, Len(shown) + 3)
                            = <<"[">> \o shown \o <<"]", "(">>
                   ELSE t.text = t.match
                /\ i > 1 => tokens[i - 1].end <= t.start
       /\ stderr = Unresolved(tokens, Len(tokens))
       /\ ScanFinished
            => \A i \in 1..Len(content) :
                  MatchAt(content, i).ok
                  => \E k \in 1..Len(tokens) :
                        tokens[k].start <= i /\ i < tokens[k].end
       /\ (pc = "done" /\ writes # <<>> /\ err.kind # "write")
            => /\ err = NoErr
               /\ fs[outputFile] = File(processed)

\* C8 witness: a successful run whose document has an unresolved token
\* followed by a token that was resolved.
C8_Witness ==
    /\ mode = "process" /\ pc = "done" /\ err = NoErr
    /\ Len(stderr) = 1
    /\ \E i, j \in 1..Len(tokens) :
          /\ i < j
          /\ ~Findable(tokens[i].base)
          /\ Findable(tokens[j].base)
          /\ SubSeq(fs[outputFile].data, tokens[i].at,
                    tokens[i].at + Len(tokens[i].match) - 1) = tokens[i].match

\* C9: if the output path is an existing file and force is false,
\* processFile fails with the output-exists error having read nothing,
\* resolved nothing, printed nothing and written nothing, every file as it
\* was; if force is true or the output path is free, the guard does not fail
\* and processFile goes on to read the input.
C9_OverwriteGuard ==
    mode = "process"
    => IF fs0[outputFile].exists /\ ~force
       THEN /\ pc \in {"guard", "done"}
            /\ pc = "done" => err = OutputExists
            /\ reads = <<>> /\ tokens = <<>> /\ stderr = <<>> /\ writes = <<>>
            /\ fs = fs0
       ELSE /\ err # OutputExists
            /\ pc = "done" => reads = <<inputFile>>

\* C9 witness: the guard has failed on a run whose input holds a token.
C9_Witness ==
    /\ mode = "process" /\ pc = "done" /\ err = OutputExists
    /\ fs0[inputFile].exists /\ FindFrom(fs0[inputFile].data, 1).ok
    /\ fs[outputFile] = File(<<"x">>)

\* C10 as stated: under every choice of input path, output path and force
\* flag the input file is as it was before the run, and a successful run has
\* written the output file alone, once, with the whole transformed content
\* (stated for the runs in which os.WriteFile does not fail).
C10_InputNeverModified ==
    (mode = "process" /\ err.kind # "write")
    => /\ fs[inputFile] = fs0[inputFile]
       /\ (pc = "done" /\ err = NoErr)
            => writes = << [path |-> outputFile, data |-> processed] >>

-----------------------------------------------------------------------------
(* What the claims about the grammar and the rewrite speak of *)

\* The marks of an expression's marked components, in order.
MarksOf(e) == [i \in 1..Len(e.parts) |-> e.parts[i].mark]

\* The component an expression gives for a mark (empty if it has none).
PartFor(e, mark) ==
    IF \E i \in 1..Len(e.parts) : e.parts[i].mark = mark
    THEN e.parts[CHOOSE i \in 1..Len(e.parts) : e.parts[i].mark = mark].text
    ELSE <<>>

\* The legal shape: a base, then at most one alias, one anchor and one block,
\* in that order, every component non-empty, closed by ]].
LegalShape(e) ==
    /\ e.base # <<>>
    /\ \A i \in 1..Len(e.parts) : e.parts[i].text # <<>>
    /\ MarksOf(e) \in { <<>>, <<"|">>, <<"#">>, <<"^">>, <<"|", "#">>, <<"|", "^">>,
                        <<"#", "^">>, <<"|", "#", "^">> }
    /\ e.close = <<"]", "]">>

\* C11: a bracket expression that is not of the legal shape matches
\* linkPattern nowhere in its text and is in the rewritten document as it
\* was written, nothing handed to the resolver; an expression of the legal
\* shape, with or without a leading !, is one match, the whole of its text,
\* whose base, alias, anchor and block are the components it was written
\* from.
C11_OnlyLegalShapesMatch ==
    (ScanFinished /\ expr # NoExpr)
    => IF LegalShape(expr)
       THEN /\ Len(tokens) = 1
            /\ tokens[1].match = content
            /\ tokens[1].start = 1 /\ tokens[1].end = Len(content) + 1
            /\ tokens[1].base = expr.base
            /\ tokens[1].alias = PartFor(expr, "|")
            /\ tokens[1].anchor = PartFor(expr, "#")
            /\ tokens[1].block = PartFor(expr, "^")
       ELSE /\ \A i \in 1..Len(content) : ~MatchAt(content, i).ok
            /\ tokens = <<>> /\ stderr = <<>>
            /\ processed = content
            /\ (pc = "done" /\ err = NoErr) => fs[outputFile] = File(ExprText(expr))

\* C11 witness: [[a|z^k^k]], a fifth component, written out as it was.
C11_Witness ==
    /\ mode = "process" /\ pc = "done" /\ err = NoErr
    /\ ~expr.embed /\ expr.base = <<"a">> /\ expr.close = <<"]", "]">>
    /\ expr.parts = << [mark |-> "|", text |-> <<"z">>],
                       [mark |-> "^", text |-> <<"k">>],
                       [mark |-> "^", text |-> <<"k">>] >>
    /\ <<"a">> \in DOMAIN index
    /\ fs[outputFile] = File(fs0[inputFile].data)

\* What the resolver is to give for the match m of the text s: the link
\* "[" display "](" prefix path ")" of the entry of its base, or of its base
\* without extension, with "#" anchor after the path if it has an anchor;
\* the text of the match if there is no such entry.
Rendering(s, m) ==
    LET shown == IF m.alias # <<>> THEN m.alias ELSE m.base
        link(info) ==
            <<"[">> \o shown \o <<"]", "(">> \o prefix \o info.path
                \o (IF m.anchor # <<>> THEN <<"#">> \o m.anchor ELSE <<>>)
                \o <<")">>
    IN  IF m.base \in DOMAIN index THEN link(index[m.base])
        ELSE IF ExtStripped(m.base) \in DOMAIN index
        THEN link(index[ExtStripped(m.base)])
        ELSE SubSeq(s, m.start, m.end - 1)

\* The text s from position i on, read from left to right: a token that
\* begins at the position read is replaced and reading goes on after it, any
\* other character is kept.
RECURSIVE Rewritten(_, _)
Rewritten(s, i) ==
    IF i > Len(s) THEN <<>>
    ELSE IF MatchAt(s, i).ok
    THEN Rendering(s, MatchAt(s, i)) \o Rewritten(s, MatchAt(s, i).end)
    ELSE <<s[i]>> \o Rewritten(s, i + 1)

\* C12: the content a successful processFile writes is the input document
\* with each token found by leftmost, non-overlapping scanning from left to
\* right replaced by the resolver's output for it and every other character
\* kept, in the same order; it is written once, and the output is not
\* scanned again.
C12_WholeDocumentRewritten ==
    /\ ScanFinished => processed = Rewritten(content, 1)
    /\ (mode = "process" /\ pc = "done" /\ err = NoErr)
        => /\ content = fs0[inputFile].data
           /\ fs[outputFile] = File(Rewritten(fs0[inputFile].data, 1))
           /\ writes = << [path |-> outputFile,
                           data |-> Rewritten(fs0[inputFile].data, 1)] >>
           /\ \A i \in 1..Len(tokens) :
                 tokens[i].match = SubSeq(content, tokens[i].start, tokens[i].end - 1)

\* C12 witness: the document [[q[[a]] written out with prefix /n/: the
\* unclosed [[q kept, the token after it replaced.
C12_Witness ==
    /\ mode = "process" /\ pc = "done" /\ err = NoErr
    /\ prefix = <<"/", "n", "/">>
    /\ <<"a">> \in DOMAIN index
    /\ fs0[inputFile].data = <<"[", "[", "q", "[", "[", "a", "]", "]">>
    /\ fs[outputFile].data =
          <<"[", "[", "q", "[", "a", "]", "(", "/", "n", "/">>
              \o index[<<"a">>].path \o <<")">>

\* C13 as stated, its first part: an embed of nothing but a base X.ext, X a
\* key of the index and X.ext not, is replaced with the image link
\* "![" X "](" prefix path ")", the leading ! kept and the extension left out
\* of the display text.
C13_EmbedImageLink ==
    (/\ ResolverReturned /\ ExtensionFallbackCase(token) /\ token.embed
     /\ token.alias = <<>> /\ token.anchor = <<>> /\ token.block = <<>>)
    => rendered =
          <<"!", "[">> \o ExtStripped(token.base) \o <<"]", "(">>
              \o prefix \o index[ExtStripped(token.base)].path \o <<")">>

=============================================================================
